---- MODULE Spec2Model ----
(***************************************************************************)
(* Payment-gated invocation pipeline of rest-mcp-backend:                  *)
(*   EndpointManager.callApiEndpoint / checkPaymentRequired  (the gate),   *)
(*   PaymentTools.executeApprovePayment                      (settlement), *)
(*   balanceRepository / paymentRepository                   (the store).  *)
(*                                                                         *)
(* Amounts are TEXT columns that the code reads with parseFloat and writes *)
(* with Number.prototype.toString, so every sum, difference and comparison *)
(* is an IEEE-754 binary64 operation.  The first part of the module is     *)
(* that arithmetic: naturals of any size as sequences of 15-bit limbs      *)
(* (least significant first), and doubles as sign * m * 2^q, m < 2^53.     *)
(***************************************************************************)
EXTENDS Integers, Sequences, FiniteSets, TLC

\* ------------------------------------------------------------------------
\* Naturals of any size: sequences of limbs in base 2^15, least significant
\* first, no leading (high) zero limb; <<>> is 0.
\* ------------------------------------------------------------------------

LimbBits == 15

Base == 2 ^ LimbBits

MaxOf(a, b) == IF a >= b THEN a ELSE b

MinOf(a, b) == IF a <= b THEN a ELSE b

RECURSIVE LStrip(_)
LStrip(n) ==
  IF n = <<>> THEN <<>>
  ELSE IF n[Len(n)] = 0 THEN LStrip(SubSeq(n, 1, Len(n) - 1))
  ELSE n

LimbAt(n, i) == IF i >= 1 /\ i <= Len(n) THEN n[i] ELSE 0

\* number of significant bits of one limb, and of a natural
LimbLen(x) == IF x = 0 THEN 0 ELSE CHOOSE k \in 1..LimbBits : 2 ^ (k - 1) <= x /\ x < 2 ^ k

LBitLen(n) == IF n = <<>> THEN 0 ELSE LimbBits * (Len(n) - 1) + LimbLen(n[Len(n)])

\* number of zero bits below the lowest set bit of one limb (x > 0), of a natural (n > 0)
LimbTrail(x) == CHOOSE k \in 0..(LimbBits - 1) : x % (2 ^ (k + 1)) = 2 ^ k

LTrail(n) ==
  LET w == CHOOSE i \in 1..Len(n) : n[i] # 0 /\ \A j \in 1..(i - 1) : n[j] = 0
  IN  LimbBits * (w - 1) + LimbTrail(n[w])

RECURSIVE LAddFrom(_, _, _, _, _)
LAddFrom(a, b, i, L, c) ==
  IF i > L THEN (IF c = 0 THEN <<>> ELSE <<c>>)
  ELSE LET s == LimbAt(a, i) + LimbAt(b, i) + c
       IN  <<s % Base>> \o LAddFrom(a, b, i + 1, L, s \div Base)

LAdd(a, b) == LAddFrom(a, b, 1, MaxOf(Len(a), Len(b)), 0)

\* a - b for a >= b
RECURSIVE LSubFrom(_, _, _, _, _)
LSubFrom(a, b, i, L, br) ==
  IF i > L THEN <<>>
  ELSE LET d == LimbAt(a, i) - LimbAt(b, i) - br
       IN  <<d % Base>> \o LSubFrom(a, b, i + 1, L, IF d < 0 THEN 1 ELSE 0)

LSub(a, b) == LStrip(LSubFrom(a, b, 1, Len(a), 0))

\* -1, 0, 1 as a < b, a = b, a > b
RECURSIVE LCmpFrom(_, _, _)
LCmpFrom(a, b, i) ==
  IF i = 0 THEN 0
  ELSE IF a[i] > b[i] THEN 1
  ELSE IF a[i] < b[i] THEN -1
  ELSE LCmpFrom(a, b, i - 1)

LCmp(a, b) ==
  IF Len(a) > Len(b) THEN 1
  ELSE IF Len(a) < Len(b) THEN -1
  ELSE LCmpFrom(a, b, Len(a))

RECURSIVE LFromInt(_)
LFromInt(k) == IF k = 0 THEN <<>> ELSE <<k % Base>> \o LFromInt(k \div Base)

\* n * k for 0 < k <= Base
RECURSIVE LMulFrom(_, _, _, _)
LMulFrom(n, k, i, c) ==
  IF i > Len(n) THEN (IF c = 0 THEN <<>> ELSE <<c>>)
  ELSE LET p == n[i] * k + c
       IN  <<p % Base>> \o LMulFrom(n, k, i + 1, p \div Base)

LMulSmall(n, k) == LStrip(LMulFrom(n, k, 1, 0))

\* quotient and remainder of n by k, 0 < k <= Base, from the high limb down
RECURSIVE LDivFrom(_, _, _, _, _)
LDivFrom(n, k, i, r, qs) ==
  IF i = 0 THEN [quot |-> LStrip(qs), rem |-> r]
  ELSE LET cur == r * Base + n[i]
       IN  LDivFrom(n, k, i - 1, cur % k, <<cur \div k>> \o qs)

LDivSmall(n, k) == LDivFrom(n, k, Len(n), 0, <<>>)

Zeros(k) == [i \in 1..k |-> 0]

\* n * 2^k
LShiftLeft(n, k) ==
  IF n = <<>> THEN <<>>
  ELSE Zeros(k \div LimbBits) \o LMulSmall(n, 2 ^ (k % LimbBits))

\* floor(n / 2^k), and whether a non-zero remainder was dropped
LShiftRight(n, k) ==
  LET w == k \div LimbBits
  IN  IF w >= Len(n) THEN [quot |-> <<>>, sticky |-> n # <<>>]
      ELSE LET dm == LDivSmall(SubSeq(n, w + 1, Len(n)), 2 ^ (k % LimbBits))
           IN  [quot |-> dm.quot,
                sticky |-> dm.rem # 0 \/ \E i \in 1..w : n[i] # 0]

\* floor(n / 10^s), and whether a non-zero remainder was dropped
RECURSIVE LDivPow10(_, _, _)
LDivPow10(n, s, sticky) ==
  IF s = 0 THEN [quot |-> n, sticky |-> sticky]
  ELSE LET dm == LDivSmall(n, 10)
       IN  LDivPow10(dm.quot, s - 1, sticky \/ dm.rem # 0)

RECURSIVE LPow10(_)
LPow10(s) == IF s = 0 THEN <<1>> ELSE LMulSmall(LPow10(s - 1), 10)

\* ------------------------------------------------------------------------
\* IEEE-754 binary64 values in the normal range: sg * m * 2^q with m odd
\* and below 2^53 (zero is m = <<>>, q = 0).  Results of + and - are
\* rounded to nearest, ties to even, as JavaScript numbers are.
\* ------------------------------------------------------------------------

MantissaBits == 53

FZero == [sg |-> 1, m |-> <<>>, q |-> 0]

\* The canonical form of sg * n * 2^q, no rounding (n of any length).
Canon(sg, n, q) ==
  LET h == LStrip(n)
  IN  IF h = <<>> THEN FZero
      ELSE LET k == LTrail(h)
           IN  [sg |-> sg, m |-> LShiftRight(h, k).quot, q |-> q + k]

\* sg * (n + sticky) * 2^q rounded to MantissaBits significant bits;
\* sticky says that a non-zero fraction below the last bit of n was dropped.
RoundNearestEven(sg, n, q, sticky) ==
  LET h == LStrip(n)
      d == LBitLen(h) - MantissaBits
  IN  IF d <= 0 THEN Canon(sg, h, q)
      ELSE LET sr    == LShiftRight(h, d - 1)
               guard == sr.quot[1] % 2
               kept  == LDivSmall(sr.quot, 2).quot
               st    == sticky \/ sr.sticky
               up    == guard = 1 /\ (st \/ kept[1] % 2 = 1)
           IN  Canon(sg, IF up THEN LAdd(kept, <<1>>) ELSE kept, q + d)

FRound(x) == RoundNearestEven(x.sg, x.m, x.q, FALSE)

FNeg(x) == IF x.m = <<>> THEN x ELSE [x EXCEPT !.sg = -x.sg]

\* The exact sum of two values (the mantissa may exceed MantissaBits).
XAdd(x, y) ==
  IF x.m = <<>> THEN y
  ELSE IF y.m = <<>> THEN x
  ELSE LET q == MinOf(x.q, y.q)
           a == LShiftLeft(x.m, x.q - q)
           b == LShiftLeft(y.m, y.q - q)
           c == LCmp(a, b)
       IN  IF x.sg = y.sg THEN Canon(x.sg, LAdd(a, b), q)
           ELSE IF c = 0 THEN FZero
           ELSE IF c > 0 THEN Canon(x.sg, LSub(a, b), q)
           ELSE Canon(y.sg, LSub(b, a), q)

XSub(x, y) == XAdd(x, FNeg(y))

XSign(x) == IF x.m = <<>> THEN 0 ELSE x.sg

\* -1, 0, 1 as x < y, x = y, x > y
FCmp(x, y) == XSign(XSub(x, y))

\* JavaScript a + b, a - b, a < b, a >= b on numbers
FAdd(x, y) == FRound(XAdd(x, y))

FSub(x, y) == FRound(XSub(x, y))

FLess(x, y) == FCmp(x, y) < 0

FGeq(x, y) == FCmp(x, y) >= 0

\* ------------------------------------------------------------------------
\* Decimal strings.  A decimal literal such as "0.001" is the record
\* [sg |-> 1, c |-> 1, s |-> 3], that is sg * c / 10^s.  parseFloat gives
\* the double nearest to that value.
\* ------------------------------------------------------------------------

Dec(sg, c, s) == [sg |-> sg, c |-> c, s |-> s]

ParseDecimal(d) ==
  LET N  == LFromInt(d.c)
      k  == MaxOf(0, MantissaBits + 2 + LBitLen(LPow10(d.s)) - LBitLen(N))
      dm == LDivPow10(LShiftLeft(N, k), d.s, FALSE)
  IN  IF N = <<>> THEN FZero
      ELSE RoundNearestEven(d.sg, dm.quot, 0 - k, dm.sticky)

\* ------------------------------------------------------------------------
\* The configuration the model runs on.
\* ------------------------------------------------------------------------

None == "none"

\* principals: two end users (payers) and one developer (tenant, payee)
Users == {"u1", "u2"}

Developer == "dev"

\* The tenant's tool descriptors, as rows of the endpoints table:
\* get_weather is GET https://api.example/weather/{city}, search is POST
\* with a body parameter, ping is GET without parameters.
Endpoints ==
  [get_weather |-> [id |-> "e1", method |-> "GET",  required |-> {"city"}, path |-> {"city"}],
   search      |-> [id |-> "e2", method |-> "POST", required |-> {"q"},    path |-> {}],
   ping        |-> [id |-> "e3", method |-> "GET",  required |-> {},       path |-> {}]]

ToolNames == DOMAIN Endpoints

EndpointIds == {Endpoints[t].id : t \in ToolNames}

\* a tool name no EndpointManager holds
MissingTool == "missing"

\* decimal literals that reach the system as request bodies and pricing rows
\* "0.001": the price per call of get_weather and of search; ping is free
Price == Dec(1, 1, 3)

\* "0.01" and "-0.009": the amounts the management surface is asked to credit
CreditAmounts == {Dec(1, 1, 2), Dec(-1, 9, 3)}

\* the principal whose credits are explored; the other never funds a balance
CreditUsers == {"u1"}

\* "0.01": the deposit a principal may hold when the system starts
Deposit == Dec(1, 1, 2)

\* parseFloat on the literals of the model, computed once
Literals == CreditAmounts \cup {Price, Deposit, Dec(1, 0, 0)}

ParseTable == [d \in Literals |-> ParseDecimal(d)]

parseFloat(d) == ParseTable[d]

\* sessions differ in the identities their DynamicMCPServer was built with
Sessions ==
  {[endUserId |-> u, developerId |-> Developer] : u \in Users}
    \cup {[endUserId |-> None, developerId |-> None]}

\* request contexts that can be in flight at the same time
Procs == {1, 2}

\* bounds of the exploration
\* rows the payment_transactions table can hold
MaxPayments == 2

\* requests (invocations, approvals, credits) the system receives
MaxOps == 4

\* references a caller can put in _payment_id / payment_id
NoRef == -1

UnknownRef == 0

\* the tenants (developers) whose tools the registry holds
Tenants == {"t1", "t2"}

\* management request contexts that can be in flight at the same time
MgmtProcs == {1, 2}

\* management requests (register, remove, update, reload) the system receives
MaxRequests == 3

\* servers.get(userId) when the map has no entry for the tenant
NoServer == 0

VARIABLES
  pricing,    \* endpoint_pricing: endpoint id -> price literal, or None
  balances,   \* user_balances: user -> row (exists = FALSE: no row)
  payments,   \* payment_transactions: sequence of rows, payment_id = index
  procs,      \* the requests in flight: one record per request context
  debits,     \* payment_id -> number of completed deductPayment writes for it
  refunds,    \* payment_id -> number of completed refund writes for it
  transfers,  \* payment_id -> number of value transfers submitted for it
  calls,      \* payment_id -> number of outbound calls made on its reference
  credits,    \* user -> amount -> number of completed credits of that amount
  credited,   \* transaction hash -> amount credited on it so far (history)
  seen,       \* payment_id -> the statuses the row has had so far
  ops,        \* number of requests received so far
  endpointsTable, \* endpoints: the descriptor rows, unique in (user_id, name)
  servers,    \* MCPServerRegistry.servers: tenant -> instance id, 0 = no entry
  instances,  \* the DynamicMCPServer objects built so far, id = index
  mgmt,       \* the management requests in flight: one record per context
  requests,   \* number of management requests received so far
  dynamicServer, \* the single-server program's EndpointManager
  reply       \* the single-server program's last response

vars ==
  <<pricing, balances, payments, procs, debits, refunds, transfers, calls,
    credits, credited, seen, ops, endpointsTable, servers, instances, mgmt,
    requests, dynamicServer, reply>>

\* the state of the tool registry, which the payment pipeline leaves alone
registry == <<endpointsTable, servers, instances, mgmt, requests>>

\* the state of the single-server program
single == <<dynamicServer, reply>>

\* the state of the payment pipeline, which the tool registry leaves alone
ledger ==
  <<pricing, balances, payments, procs, debits, refunds, transfers, calls,
    credits, credited, seen, ops>>

\* endpoint_pricing rows: at most one per endpoint
NoPricing == [exists |-> FALSE, price_per_call_eth |-> Dec(1, 0, 0)]

Priced(d) == [exists |-> TRUE, price_per_call_eth |-> d]

NoSession == [endUserId |-> None, developerId |-> None]

NoBalance ==
  [exists |-> FALSE, balance_eth |-> FZero,
   total_deposited_eth |-> FZero, total_spent_eth |-> FZero]

Idle ==
  [op |-> None, pc |-> "idle", user |-> None, tool |-> None, ref |-> NoRef,
   keys |-> {}, sess |-> NoSession, gate |-> None, called |-> FALSE,
   payload |-> {},
   amount |-> Dec(1, 0, 0), rd |-> NoBalance, result |-> None,
   balance |-> NoBalance, currentBalance |-> FZero, trail |-> <<>>,
   tx |-> None, verified |-> None]

PaymentIds == 1..MaxPayments

\* the row of a principal whose only operation so far was a credit of d
Deposited(d) ==
  [exists |-> TRUE, balance_eth |-> parseFloat(d),
   total_deposited_eth |-> parseFloat(d), total_spent_eth |-> FZero]

\* ------------------------------------------------------------------------
\* balanceRepository
\* ------------------------------------------------------------------------

\* getOrCreateBalance: the row of the user, inserted with "0" fields if absent
getOrCreateBalance(bal, u) ==
  IF bal[u].exists THEN bal
  ELSE [bal EXCEPT ![u] =
          [exists |-> TRUE, balance_eth |-> parseFloat(Dec(1, 0, 0)),
           total_deposited_eth |-> parseFloat(Dec(1, 0, 0)),
           total_spent_eth |-> parseFloat(Dec(1, 0, 0))]]

\* getBalanceByUserId: a query; the table after it is the table before it
\* (and the variant that inserts the missing row, as getOrCreateBalance does)
getBalanceByUserId_Creating(bal, u) == getOrCreateBalance(bal, u)

getBalanceByUserId(bal, u) == bal

\* addDeposit after its read: the update it sends, computed from the row rd
addDepositWrite(bal, u, rd, amountEth) ==
  [bal EXCEPT ![u].balance_eth = FAdd(rd.balance_eth, parseFloat(amountEth)),
              ![u].total_deposited_eth =
                 FAdd(rd.total_deposited_eth, parseFloat(amountEth))]

\* deductPayment after its read: the update it sends, computed from the row rd
deductPaymentWrite(bal, u, rd, amountEth) ==
  [bal EXCEPT ![u].balance_eth = FSub(rd.balance_eth, parseFloat(amountEth)),
              ![u].total_spent_eth =
                 FAdd(rd.total_spent_eth, parseFloat(amountEth))]

\* deductPayment's check on the row it read
deductPaymentThrows(rd, amountEth) ==
  \/ ~rd.exists
  \/ FLess(rd.balance_eth, parseFloat(amountEth))

\* ------------------------------------------------------------------------
\* paymentRepository
\* ------------------------------------------------------------------------

PaymentExists(pay, id) == id \in 1..Len(pay)

\* createPaymentTransaction: a new pending row under a fresh payment_id
createPaymentTransaction(pay, userId, endpointId, amountEth) ==
  Append(pay, [user_id |-> userId, endpoint_id |-> endpointId,
               amount_eth |-> amountEth, status |-> "pending",
               error_message |-> FALSE, blockchain_tx_hash |-> FALSE])

\* updatePaymentTransaction: the update is keyed by payment_id only; it
\* throws when no row matches
updateThrows(pay, id) == ~PaymentExists(pay, id)

updateStatus(pay, id, st) == [pay EXCEPT ![id].status = st]

\* markPaymentCompleted (and the variant whose update is lost)
markPaymentCompleted_Dropped(pay, id) == pay

markPaymentCompleted(pay, id) ==
  [pay EXCEPT ![id].status = "completed", ![id].blockchain_tx_hash = TRUE]

\* markPaymentFailed (and the variant that writes the status expired)
markPaymentFailed_Expiring(pay, id) ==
  [pay EXCEPT ![id].status = "expired", ![id].error_message = TRUE]

markPaymentFailed(pay, id) ==
  [pay EXCEPT ![id].status = "failed", ![id].error_message = TRUE]

\* ------------------------------------------------------------------------
\* EndpointManager.checkPaymentRequired and callApiEndpoint
\* ------------------------------------------------------------------------

ReservedParam == "_payment_id"

Args(keys, ref) == IF ref = NoRef THEN keys ELSE keys \cup {ReservedParam}

\* the gate's test for a free tool: no pricing row, or a price that is not
\* positive
FreeOfCharge(pr) ==
  ~pr.exists \/ FCmp(parseFloat(pr.price_per_call_eth), FZero) <= 0

\* the gate's test on the row a reference names (and the variant of it that
\* accepts a row in any status)
PaymentCompleted_AnyStatus(row) == TRUE

PaymentCompleted(row) == row.status = "completed"

\* delete args._payment_id (and the variant that leaves it in place)
StripReserved_Keep(args) == args

StripReserved(args) == args \ {ReservedParam}

\* The gate.  res = "null" is the code's null (proceed); every other res is
\* the 402 it returns.  pay is the payments table afterwards and args the
\* argument object afterwards (the gate deletes _payment_id in place).
checkPaymentRequired(endpointId, endUserId, developerId, args, ref) ==
  LET pr == pricing[endpointId]
      blocked(r) == [res |-> r, pay |-> payments, args |-> args]
  IN  IF FreeOfCharge(pr)
        THEN [res |-> "null", pay |-> payments, args |-> args]
      ELSE IF ref # NoRef
        THEN IF ~PaymentExists(payments, ref) THEN blocked("invalid_payment_id")
             ELSE IF payments[ref].user_id # endUserId THEN blocked("other_user")
             ELSE IF payments[ref].endpoint_id # endpointId THEN blocked("other_endpoint")
             ELSE IF PaymentCompleted(payments[ref])
               THEN [res |-> "null", pay |-> payments, args |-> StripReserved(args)]
             ELSE blocked("not_completed")
      ELSE IF ~balances[endUserId].exists THEN blocked("no_balance")
      ELSE [res |-> "payment_required",
            pay |-> createPaymentTransaction(payments, endUserId, endpointId,
                                             pr.price_per_call_eth),
            args |-> args]

\* the request arguments callApiEndpoint sends: GET and DELETE send the
\* arguments less the path parameters as query, the others send them as body
RequestPayload(endpoint, args) ==
  IF endpoint.method \in {"GET", "DELETE"} THEN args \ endpoint.path ELSE args

GateConsulted(endpoint, sess) ==
  endpoint.id # None /\ sess.endUserId # None /\ sess.developerId # None

\* request contexts are interchangeable: a new request takes the first free one
Free(p) == procs[p].pc = "idle"

FirstFree(p) == \A o \in Procs : Free(o) => ~(o < p)

Finish(p, rec) == procs' = [procs EXCEPT ![p] = rec]

\* no result is waiting to be handed to its caller
Quiet == \A q \in Procs : procs[q].pc # "done"

\* the handler returns: its result goes to the caller and the context ends.
\* Returning touches no table, so it is taken before any other step.
Return(p) ==
  /\ procs[p].pc = "done"
  /\ procs' = [procs EXCEPT ![p] = Idle]
  /\ UNCHANGED <<registry, single, pricing, balances, payments, debits, refunds, transfers, calls,
                 credits, credited, seen, ops>>

\* the statuses each row has had, once the table is pay
Seen(pay) ==
  [i \in PaymentIds |->
     IF i <= Len(pay) THEN seen[i] \cup {pay[i].status} ELSE seen[i]]

\* a request arrives
Received == ops < MaxOps /\ ops' = ops + 1

\* callApiEndpoint.  Its only accesses to the tables are those of the gate;
\* what follows the gate (validation, the outbound call, processResponse or
\* the catch) is local to the request, so the handler is one step.  outcome
\* is what the outbound call does: it answers 2xx, or it fails (another
\* status, a timeout, a network error).
Invoke(p, sess, tool, keys, ref, outcome) ==
  /\ Free(p)
  /\ FirstFree(p)
  /\ Received
  /\ LET me == [Idle EXCEPT !.op = "invoke", !.pc = "done", !.sess = sess,
                            !.tool = tool, !.user = sess.endUserId,
                            !.keys = keys, !.ref = ref]
     IN  IF tool \notin ToolNames
           THEN /\ Finish(p, [me EXCEPT !.result = "not_found"])
                /\ UNCHANGED <<payments, calls>>
         ELSE
           LET endpoint == Endpoints[tool]
               args == Args(keys, ref)
               consulted == GateConsulted(endpoint, sess)
               g == IF consulted
                      THEN checkPaymentRequired(endpoint.id, sess.endUserId,
                                                sess.developerId, args, ref)
                      ELSE [res |-> "null", pay |-> payments, args |-> args]
               gated == [me EXCEPT !.gate = IF ~consulted THEN "skipped"
                                            ELSE IF g.res = "null" THEN "proceed"
                                            ELSE "blocked"]
           IN  /\ Len(g.pay) <= MaxPayments
               /\ payments' = g.pay
               /\ IF g.res # "null"
                    THEN /\ Finish(p, [gated EXCEPT !.result = g.res])
                         /\ UNCHANGED calls
                  ELSE IF \E prm \in endpoint.required : prm \notin g.args
                    THEN /\ Finish(p, [gated EXCEPT !.result = "missing_parameter"])
                         /\ UNCHANGED calls
                  ELSE /\ Finish(p, [gated EXCEPT
                                       !.called = TRUE,
                                       !.payload = RequestPayload(endpoint, g.args),
                                       !.result = IF outcome = "2xx" THEN "success"
                                                  ELSE "failure"])
                       /\ IF consulted /\ ref # NoRef /\ ~FreeOfCharge(pricing[endpoint.id])
                            THEN calls' = [calls EXCEPT ![ref] = @ + 1]
                            ELSE UNCHANGED calls
  /\ balances' = IF /\ tool \in ToolNames
                      /\ GateConsulted(Endpoints[tool], sess)
                      /\ ~FreeOfCharge(pricing[Endpoints[tool].id])
                      /\ ref = NoRef
                     THEN getBalanceByUserId(balances, sess.endUserId)
                     ELSE balances
  /\ seen' = Seen(payments')
  /\ UNCHANGED <<registry, single, pricing, debits, refunds, transfers, credits, credited>>

\* ------------------------------------------------------------------------
\* BaseTransactionService.verifyPayment
\* ------------------------------------------------------------------------

PLATFORM_WALLET_ADDRESS == "platform"

\* parseEther: the amount as an integer, exactly.  The unit here is 10^12
\* wei, of which every amount of the model is a multiple.
EtherDecimals == 6

RECURSIVE Pow10(_)
Pow10(k) == IF k = 0 THEN 1 ELSE 10 * Pow10(k - 1)

parseEther(d) == d.sg * d.c * Pow10(EtherDecimals - d.s)

\* what the chain holds under each hash a caller may submit: whether the
\* transaction is mined (a receipt exists), the status of the receipt, the
\* recipient and the value
Chain ==
  [t_ok       |-> [mined |-> TRUE,  status |-> "success",  to |-> "platform", value |-> parseEther(Dec(1, 1, 2))],
   t_pending  |-> [mined |-> FALSE, status |-> None,       to |-> "platform", value |-> parseEther(Dec(1, 1, 2))],
   t_reverted |-> [mined |-> TRUE,  status |-> "reverted", to |-> "platform", value |-> parseEther(Dec(1, 1, 2))],
   t_other    |-> [mined |-> TRUE,  status |-> "success",  to |-> "other",    value |-> parseEther(Dec(1, 1, 2))],
   t_small    |-> [mined |-> TRUE,  status |-> "success",  to |-> "platform", value |-> parseEther(Dec(1, 1, 3))]]

TxHashes == DOMAIN Chain

\* BaseWalletService.isTransactionConfirmed: receipt.status === "success",
\* and false when getTransactionReceipt throws (no receipt)
isTransactionConfirmed(tx) == tx.mined /\ tx.status = "success"

\* the amount test of verifyPayment
AmountShort(actualAmountWei, expectedAmountWei) ==
  actualAmountWei < expectedAmountWei

\* verifyPayment without expectedSender: "valid" is isValid = true, every
\* other result is the errorMessage returned with isValid = false
verifyPayment(tx, expectedAmount, expectedRecipient) ==
  IF ~isTransactionConfirmed(tx) THEN "not_confirmed_yet"
  ELSE IF tx.status # "success" THEN "failed_on_chain"
  ELSE IF tx.to # expectedRecipient THEN "wrong_recipient"
  ELSE IF AmountShort(tx.value, parseEther(expectedAmount))
    THEN "insufficient_payment"
  ELSE "valid"

\* ------------------------------------------------------------------------
\* paymentController.creditDeposit and manualCredit ->
\* balanceRepository.addDeposit
\* ------------------------------------------------------------------------

Rest == <<registry, single, pricing, payments, debits, refunds, transfers, calls, credits, credited, seen>>

\* addDeposit reads the row (getOrCreateBalance) ...
ManualCredit(p, u, amountEth) ==
  /\ Free(p)
  /\ FirstFree(p)
  /\ Received
  /\ balances' = getOrCreateBalance(balances, u)
  /\ procs' = [procs EXCEPT ![p] =
                 [Idle EXCEPT !.op = "credit", !.pc = "cr_write", !.user = u,
                              !.amount = amountEth, !.rd = balances'[u]]]
  /\ UNCHANGED Rest

\* creditDeposit: verifyPayment on the submitted hash and amount; when it is
\* not valid the handler answers 400, otherwise addDeposit reads the row
CreditDeposit(p, u, hash, amountEth) ==
  /\ Free(p)
  /\ FirstFree(p)
  /\ Received
  /\ LET verification == verifyPayment(Chain[hash], amountEth, PLATFORM_WALLET_ADDRESS)
         me == [Idle EXCEPT !.op = "deposit", !.user = u, !.amount = amountEth,
                            !.tx = hash, !.verified = verification]
     IN  IF verification # "valid"
           THEN /\ Finish(p, [me EXCEPT !.pc = "done", !.result = verification])
                /\ UNCHANGED balances
           ELSE /\ balances' = getOrCreateBalance(balances, u)
                /\ Finish(p, [me EXCEPT !.pc = "cr_write", !.rd = balances'[u]])
  /\ UNCHANGED Rest

\* ... and later writes the sums it computed from what it read; stored =
\* FALSE is the store reporting an error, which the controller answers 500.
\* The code keeps no record of the hashes it has credited; tallied = TRUE
\* makes the history variable credited keep one (the amounts in the unit
\* of parseEther), for the specification that examines it.
CreditWrite(p, stored, tallied) ==
  /\ procs[p].pc = "cr_write"
  /\ IF stored
       THEN /\ balances' = addDepositWrite(balances, procs[p].user,
                                           procs[p].rd, procs[p].amount)
            /\ credits' = [credits EXCEPT ![procs[p].user][procs[p].amount] = @ + 1]
            /\ credited' = IF tallied /\ procs[p].op = "deposit"
                             THEN [credited EXCEPT ![procs[p].tx] =
                                     @ + parseEther(procs[p].amount)]
                             ELSE credited
            /\ Finish(p, [procs[p] EXCEPT !.pc = "done", !.rd = NoBalance,
                                          !.result = "credited"])
       ELSE /\ Finish(p, [procs[p] EXCEPT !.pc = "done", !.rd = NoBalance,
                                          !.result = "store_error"])
            /\ UNCHANGED <<balances, credits, credited>>
  /\ UNCHANGED <<registry, single, pricing, payments, debits, refunds, transfers, calls, seen, ops>>

\* ------------------------------------------------------------------------
\* PaymentTools.executeApprovePayment, one action per await
\* ------------------------------------------------------------------------

Goto(p, pc) == procs' = [procs EXCEPT ![p].pc = pc]

\* throw new Error(message): control goes to the catch named by pc, with
\* the message in result
Throw(p, pc, message) ==
  procs' = [procs EXCEPT ![p].pc = pc, ![p].result = message]

\* what the approval has done so far, in order
Did(p, event) == Append(procs[p].trail, event)

\* the status written before the transfer (and the variant that leaves the
\* payment pending)
PROCESSING_Skipped == "pending"

PROCESSING == "processing"

\* entry, getPaymentByPaymentId and the three checks on the row; each
\* rejection is a throw inside the outer try
ApproveStart(p, u, ref) ==
  /\ Free(p)
  /\ FirstFree(p)
  /\ Received
  /\ LET me == [Idle EXCEPT !.op = "approve", !.user = u, !.ref = ref,
                            !.pc = "ap_catch"]
     IN  IF ref = NoRef
           THEN Finish(p, [me EXCEPT !.result = "payment_id_required"])
         ELSE IF ~PaymentExists(payments, ref)
           THEN Finish(p, [me EXCEPT !.result = "not_found"])
         ELSE IF payments[ref].user_id # u
           THEN Finish(p, [me EXCEPT !.result = "unauthorized"])
         ELSE IF payments[ref].status # "pending"
           THEN Finish(p, [me EXCEPT !.result = "wrong_state"])
         ELSE Finish(p, [me EXCEPT !.pc = "ap_getBalance",
                                   !.amount = payments[ref].amount_eth])
  /\ UNCHANGED balances
  /\ UNCHANGED Rest

\* currentBalance < requiredAmount, both through parseFloat (and the variant
\* that never reports a shortfall)
InsufficientBalance_Never(currentBalance, requiredAmount) == FALSE

InsufficientBalance(currentBalance, requiredAmount) ==
  FLess(currentBalance, parseFloat(requiredAmount))

\* getOrCreateBalance and the shortfall report
ApproveGetBalance(p) ==
  /\ procs[p].pc = "ap_getBalance"
  /\ balances' = getOrCreateBalance(balances, procs[p].user)
  /\ LET currentBalance == balances'[procs[p].user].balance_eth
     IN  IF InsufficientBalance(currentBalance, procs[p].amount)
           THEN Finish(p, [procs[p] EXCEPT !.pc = "done", !.result = "shortfall",
                                           !.balance = balances'[procs[p].user],
                                           !.currentBalance = currentBalance])
           ELSE procs' = [procs EXCEPT ![p].pc = "ap_deductRead",
                                       ![p].balance = balances'[procs[p].user],
                                       ![p].currentBalance = currentBalance]
  /\ UNCHANGED <<ops>>
  /\ UNCHANGED Rest

\* deductPayment: getBalanceByUserId and its checks
ApproveDeductRead(p) ==
  /\ procs[p].pc = "ap_deductRead"
  /\ LET rd == balances[procs[p].user]
     IN  IF deductPaymentThrows(rd, procs[p].amount)
           THEN Throw(p, "ap_catch", IF rd.exists THEN "insufficient_balance"
                                     ELSE "balance_not_found")
           ELSE procs' = [procs EXCEPT ![p].pc = "ap_deductWrite", ![p].rd = rd]
  /\ UNCHANGED <<balances, ops>>
  /\ UNCHANGED Rest

\* deductPayment: the update; stored = FALSE is the store reporting an error
ApproveDeductWrite(p, stored) ==
  /\ procs[p].pc = "ap_deductWrite"
  /\ IF stored
       THEN /\ balances' = deductPaymentWrite(balances, procs[p].user,
                                              procs[p].rd, procs[p].amount)
            /\ debits' = [debits EXCEPT ![procs[p].ref] = @ + 1]
            /\ procs' = [procs EXCEPT ![p].pc = "ap_markProcessing",
                                      ![p].rd = NoBalance,
                                      ![p].trail = Did(p, "debit")]
       ELSE /\ procs' = [procs EXCEPT ![p].pc = "ap_catch", ![p].rd = NoBalance,
                                      ![p].result = "store_error"]
            /\ UNCHANGED <<balances, debits>>
  /\ UNCHANGED <<registry, single, pricing, payments, refunds, transfers, calls,
                 credits, credited, seen, ops>>

\* updatePaymentTransaction(payment_id, {status: PROCESSING}), the first
\* statement of the inner try
ApproveMarkProcessing(p, stored) ==
  /\ procs[p].pc = "ap_markProcessing"
  /\ IF stored /\ ~updateThrows(payments, procs[p].ref)
       THEN /\ payments' = updateStatus(payments, procs[p].ref, PROCESSING)
            /\ procs' = [procs EXCEPT ![p].pc = "ap_transfer",
                                      ![p].trail = Did(p, "processing")]
       ELSE /\ Throw(p, "ap_refundRead", "store_error")
            /\ UNCHANGED payments
  /\ seen' = Seen(payments')
  /\ UNCHANGED <<registry, single, pricing, balances, debits, refunds, transfers, calls,
                 credits, credited, ops>>

\* walletService.transfer: it returns a hash (the transfer is submitted), or
\* it throws (also: PLATFORM_WALLET_PRIVATE_KEY is not configured)
ApproveTransfer(p, submitted) ==
  /\ procs[p].pc = "ap_transfer"
  /\ IF submitted
       THEN /\ transfers' = [transfers EXCEPT ![procs[p].ref] = @ + 1]
            /\ procs' = [procs EXCEPT ![p].pc = "ap_wait",
                                      ![p].trail = Did(p, "transfer")]
       ELSE /\ Throw(p, "ap_refundRead", "transfer_failed")
            /\ UNCHANGED transfers
  /\ UNCHANGED <<registry, single, pricing, balances, payments, debits, refunds, calls,
                 credits, credited, seen, ops>>

\* where control goes after walletService.waitForTransaction (and the
\* variant in which a wait that throws is followed by the completion too)
WaitOutcome_Unconfirmed(confirmed) == "ap_markCompleted"

WaitOutcome(confirmed) ==
  IF confirmed THEN "ap_markCompleted" ELSE "ap_refundRead"

\* walletService.waitForTransaction: it returns, or it throws
ApproveWait(p, confirmed) ==
  /\ procs[p].pc = "ap_wait"
  /\ procs' = [procs EXCEPT
                 ![p].pc = WaitOutcome(confirmed),
                 ![p].result = IF confirmed THEN @ ELSE "confirmation_failed",
                 ![p].trail = IF confirmed THEN Did(p, "confirm") ELSE @]
  /\ UNCHANGED <<registry, single, pricing, balances, payments, debits, refunds, transfers, calls,
                 credits, credited, seen, ops>>

\* updatePaymentTransaction(payment_id, {status: COMPLETED, blockchain_tx_hash})
ApproveMarkCompleted(p, stored) ==
  /\ procs[p].pc = "ap_markCompleted"
  /\ IF stored /\ ~updateThrows(payments, procs[p].ref)
       THEN /\ payments' = markPaymentCompleted(payments, procs[p].ref)
            /\ Finish(p, [procs[p] EXCEPT !.pc = "done", !.result = "success",
                                          !.trail = Did(p, "completed")])
       ELSE /\ Throw(p, "ap_refundRead", "store_error")
            /\ UNCHANGED payments
  /\ seen' = Seen(payments')
  /\ UNCHANGED <<registry, single, pricing, balances, debits, refunds, transfers, calls,
                 credits, credited, ops>>

\* inner catch: addDeposit reads the row ...
ApproveRefundRead(p) ==
  /\ procs[p].pc = "ap_refundRead"
  /\ balances' = getOrCreateBalance(balances, procs[p].user)
  /\ procs' = [procs EXCEPT ![p].pc = "ap_refundWrite",
                            ![p].rd = balances'[procs[p].user]]
  /\ UNCHANGED <<ops>>
  /\ UNCHANGED Rest

\* ... and writes the refund; an error of the store is thrown out of the
\* inner catch
ApproveRefundWrite(p, stored) ==
  /\ procs[p].pc = "ap_refundWrite"
  /\ IF stored
       THEN /\ balances' = addDepositWrite(balances, procs[p].user,
                                           procs[p].rd, procs[p].amount)
            /\ refunds' = [refunds EXCEPT ![procs[p].ref] = @ + 1]
            /\ procs' = [procs EXCEPT ![p].pc = "ap_markFailed",
                                      ![p].rd = NoBalance,
                                      ![p].trail = Did(p, "refund")]
       ELSE /\ procs' = [procs EXCEPT ![p].pc = "ap_catch", ![p].rd = NoBalance,
                                      ![p].result = "store_error"]
            /\ UNCHANGED <<balances, refunds>>
  /\ UNCHANGED <<registry, single, pricing, payments, debits, transfers, calls,
                 credits, credited, seen, ops>>

\* inner catch: markPaymentFailed, then the failure report with refunded
ApproveMarkFailed(p, stored) ==
  /\ procs[p].pc = "ap_markFailed"
  /\ IF stored /\ ~updateThrows(payments, procs[p].ref)
       THEN /\ payments' = markPaymentFailed(payments, procs[p].ref)
            /\ Finish(p, [procs[p] EXCEPT !.pc = "done", !.result = "refunded"])
       ELSE /\ Throw(p, "ap_catch", "store_error")
            /\ UNCHANGED payments
  /\ seen' = Seen(payments')
  /\ UNCHANGED <<registry, single, pricing, balances, debits, refunds, transfers, calls,
                 credits, credited, ops>>

\* outer catch: markPaymentFailed(args.payment_id, ...) with its own errors
\* ignored, then the error is rethrown
ApproveCatch(p, stored) ==
  /\ procs[p].pc = "ap_catch"
  /\ payments' = IF procs[p].ref = NoRef \/ ~stored
                    \/ updateThrows(payments, procs[p].ref)
                   THEN payments
                   ELSE markPaymentFailed(payments, procs[p].ref)
  /\ Finish(p, [procs[p] EXCEPT !.pc = "done"])
  /\ seen' = Seen(payments')
  /\ UNCHANGED <<registry, single, pricing, balances, debits, refunds, transfers, calls,
                 credits, credited, ops>>

\* ------------------------------------------------------------------------
\* The tool registry: endpointUtils, EndpointManager, DynamicMCPServer,
\* MCPServerRegistry, the endpoints table and the endpoint controllers
\* ------------------------------------------------------------------------

\* the verbs of the HTTPMethod enum, which are those of the table's CHECK
HTTPMethod == {"GET", "POST", "PUT", "DELETE", "PATCH"}

\* names a descriptor can carry
Names == {"a", "b"}

\* a request body: every field is a string ("" when the body leaves it out),
\* a parameter's required is "true", "false" or "undefined"
Config(name, url, method, description, parameters) ==
  [name |-> name, url |-> url, method |-> method,
   description |-> description, parameters |-> parameters]

Param(name, required) == [name |-> name, required |-> required]

\* !v of a string field: it is undefined or empty
Falsy(v) == v = ""

\* createEndpointFromConfig throws unless this holds
HasRequiredFields(config) ==
  ~(\/ Falsy(config.name) \/ Falsy(config.url)
    \/ Falsy(config.method) \/ Falsy(config.description))

\* createEndpointFromConfig on a body that has the required fields: the
\* descriptor, whose parameters carry required as a boolean
createEndpointFromConfig(config) ==
  [user_id |-> None, name |-> config.name, url |-> config.url,
   method |-> config.method, description |-> config.description,
   parameters |->
     [i \in 1..Len(config.parameters) |->
        [name |-> config.parameters[i].name,
         required |-> config.parameters[i].required # "false"]]]

NoEndpoint == createEndpointFromConfig(Config("", "", "", "", <<>>))

\* required.push(param.name) for the parameters whose required is not false
RECURSIVE RequiredList(_)
RequiredList(parameters) ==
  IF parameters = <<>> THEN <<>>
  ELSE LET rest == RequiredList(Tail(parameters))
       IN  IF Head(parameters).required # FALSE
             THEN <<Head(parameters).name>> \o rest
             ELSE rest

\* createEndpointTool: properties is the set of keys of the schema's
\* properties object, required its required array
createEndpointTool(endpoint) ==
  [name |-> endpoint.name,
   description |-> endpoint.description,
   properties |-> {endpoint.parameters[i].name :
                     i \in 1..Len(endpoint.parameters)} \cup {ReservedParam},
   required |-> RequiredList(endpoint.parameters)]

\* a Map keyed by name, as the set of its values
Has(map, name) == \E v \in map : v.name = name

Put(map, v) == {w \in map : w.name # v.name} \cup {v}

Delete(map, name) == {w \in map : w.name # name}

\* new EndpointManager(): no descriptor, no tool
NewManager == [endpoints |-> {}, tools |-> {}]

\* EndpointManager.addEndpoint (and the variant that replaces the entry of a
\* name it already holds); ok = FALSE is the throw
addEndpoint_Replacing(m, endpoint) ==
  [ok |-> TRUE,
   mgr |-> [endpoints |-> Put(m.endpoints, endpoint),
            tools |-> Put(m.tools, createEndpointTool(endpoint))]]

addEndpoint(m, endpoint) ==
  IF Has(m.endpoints, endpoint.name)
    THEN [ok |-> FALSE, mgr |-> m]
    ELSE [ok |-> TRUE,
          mgr |-> [endpoints |-> Put(m.endpoints, endpoint),
                   tools |-> Put(m.tools, createEndpointTool(endpoint))]]

\* EndpointManager.removeEndpoint, which DynamicMCPServer.removeEndpoint
\* returns the result of (and the variant that throws on a name it does not
\* hold, dropping what it holds)
removeEndpoint_Strict(m, name) ==
  IF Has(m.endpoints, name) \/ Has(m.tools, name)
    THEN [removed |-> TRUE, raised |-> FALSE,
          mgr |-> [endpoints |-> Delete(m.endpoints, name),
                   tools |-> Delete(m.tools, name)]]
    ELSE [removed |-> FALSE, raised |-> TRUE, mgr |-> NewManager]

removeEndpoint(m, name) ==
  [removed |-> Has(m.endpoints, name) \/ Has(m.tools, name),
   raised |-> FALSE,
   mgr |-> [endpoints |-> Delete(m.endpoints, name),
            tools |-> Delete(m.tools, name)]]

\* a management request context before a request takes it
MgmtIdle ==
  [op |-> None, pc |-> "idle", tenant |-> None, name |-> None,
   endpoint |-> NoEndpoint, previous |-> NoServer, loaded |-> {},
   stored |-> {}, server |-> NoServer, result |-> None]

\* ---- the single-server program: one DynamicMCPServer, no store ----------

Url == "http://api"

\* bodies POST /endpoints receives: every combination of a present or absent
\* name, URL, verb and description, with a verb outside the enum among them;
\* a second description for a name; parameter lists with and without the
\* required flag, one of them naming its parameter _payment_id
ParameterLists ==
  {<<>>, <<Param("q", "undefined"), Param("city", "false")>>}
    \cup {<<Param(n, r)>> : n \in {"city", ReservedParam},
                            r \in {"true", "false", "undefined"}}

Configs ==
  {Config(n, u, m, d, <<>>) :
     n \in {"", "a"}, u \in {"", Url}, m \in {"", "GET", "TRACE"},
     d \in {"", "d"}}
    \cup {Config("a", Url, "GET", "d2", <<>>)}
    \cup {Config("b", Url, "POST", "d", ps) : ps \in ParameterLists}

NoReply == [op |-> None, config |-> Config("", "", "", "", <<>>),
            name |-> None, status |-> None]

\* ------------------------------------------------------------------------
\* The system
\* ------------------------------------------------------------------------

Refs == {NoRef, UnknownRef} \cup PaymentIds

\* the invocations explored.  The first principal sends every tool's own
\* parameters or omits them; it opens payments for get_weather and offers
\* its references to both priced tools.  The second principal, who never
\* holds a balance, and the sessions without identities send complete
\* parameters; where no payment row can be looked up (no identities, free
\* tool) one unknown reference stands for all.
InvokeInputs ==
  {<<sess, tool, keys, ref>> \in
      Sessions \X (ToolNames \cup {MissingTool}) \X (SUBSET {"city", "q"}) \X Refs :
        /\ tool = MissingTool => keys = {} /\ ref = NoRef
        /\ tool \in ToolNames => keys \subseteq Endpoints[tool].required
        /\ (sess = NoSession \/ tool = "ping") => ref \in {NoRef, UnknownRef}
        /\ sess.endUserId # "u1" =>
             tool \in ToolNames /\ keys = Endpoints[tool].required
        /\ sess.endUserId = "u2" => tool = "get_weather"
        /\ (sess.endUserId = "u1" /\ tool = "search") => ref # NoRef}

\* the approvals explored: every reference by the first principal, the
\* references of existing rows by the second
ApproveInputs ==
  {<<u, ref>> \in Users \X Refs : u = "u2" => ref \in PaymentIds}

Outcomes == {"2xx", "fails"}

\* one step of the request context p; Store holds what a write to the store
\* can do: TRUE (it is applied), FALSE (the store reports an error);
\* tallied is whether the history of the credited hashes is kept
Step(p, Store, tallied) ==
    \/ \E i \in InvokeInputs, outcome \in Outcomes :
         Invoke(p, i[1], i[2], i[3], i[4], outcome)
    \/ \E u \in CreditUsers, a \in CreditAmounts : ManualCredit(p, u, a)
    \/ \E u \in CreditUsers, hash \in TxHashes, a \in CreditAmounts :
         CreditDeposit(p, u, hash, a)
    \/ \E stored \in Store : CreditWrite(p, stored, tallied)
    \/ \E i \in ApproveInputs : ApproveStart(p, i[1], i[2])
    \/ ApproveGetBalance(p)
    \/ ApproveDeductRead(p)
    \/ \E stored \in Store : ApproveDeductWrite(p, stored)
    \/ \E stored \in Store : ApproveMarkProcessing(p, stored)
    \/ \E submitted \in BOOLEAN : ApproveTransfer(p, submitted)
    \/ \E confirmed \in BOOLEAN : ApproveWait(p, confirmed)
    \/ \E stored \in Store : ApproveMarkCompleted(p, stored)
    \/ ApproveRefundRead(p)
    \/ \E stored \in Store : ApproveRefundWrite(p, stored)
    \/ \E stored \in Store : ApproveMarkFailed(p, stored)
    \/ \E stored \in Store : ApproveCatch(p, stored)

Init ==
  /\ pricing = [e \in EndpointIds |-> IF e = "e3" THEN NoPricing ELSE Priced(Price)]
  /\ balances \in {[u \in Users |-> NoBalance],
                   [u \in Users |-> IF u \in CreditUsers THEN Deposited(Deposit)
                                    ELSE NoBalance]}
  /\ payments = <<>>
  /\ procs = [p \in Procs |-> Idle]
  /\ debits = [i \in PaymentIds |-> 0]
  /\ refunds = [i \in PaymentIds |-> 0]
  /\ transfers = [i \in PaymentIds |-> 0]
  /\ calls = [i \in PaymentIds |-> 0]
  /\ credited = [h \in TxHashes |-> 0]
  /\ credits = [u \in Users |-> [a \in CreditAmounts |->
                  IF balances[u] = Deposited(a) THEN 1 ELSE 0]]
  /\ seen = [i \in PaymentIds |-> {}]
  /\ ops = 0
  /\ endpointsTable = {}
  /\ servers = [t \in Tenants |-> NoServer]
  /\ instances = <<>>
  /\ mgmt = [p \in MgmtProcs |-> MgmtIdle]
  /\ requests = 0
  /\ dynamicServer = NewManager
  /\ reply = NoReply

\* concurrent requests over a store that applies every write
Next ==
  \/ \E p \in Procs : Return(p)
  \/ Quiet /\ \E p \in Procs : Step(p, {TRUE}, FALSE)

Spec == Init /\ [][Next]_vars

\* one request at a time, over a store whose writes can fail
NextSeq ==
  \/ Return(1)
  \/ Quiet /\ Step(1, BOOLEAN, FALSE)

SpecSeq == Init /\ [][NextSeq]_vars

\* one request at a time, over a store whose writes can fail, with the
\* history of the credited hashes kept
NextDeposits ==
  \/ Return(1)
  \/ Quiet /\ Step(1, BOOLEAN, TRUE)

SpecDeposits == Init /\ [][NextDeposits]_vars

\* one request at a time, over a store whose writes can fail; a request in
\* flight takes its next step: the process keeps running, and the transfer
\* and the wait for its confirmation return or throw.  Every state with a
\* request in flight enables a step of NextSeq, so this is WF_vars of the
\* steps of the request in flight, written without ENABLED; the return of a
\* finished handler is weakly fair as well.
SpecLive ==
  /\ Init /\ [][NextSeq]_vars
  /\ ([]<>(procs[1].pc = "idle") \/ []<><<procs[1].pc # "idle">>_vars)
  /\ WF_vars(Return(1))

\* ------------------------------------------------------------------------
\* The endpoint controllers
\* ------------------------------------------------------------------------

\* the older controller's addEndpoint: createEndpointFromConfig, then
\* dynamicServer.addEndpoint; either throw is answered 400
AddEndpoint(config) ==
  /\ LET answer(s) == reply' = [NoReply EXCEPT !.op = "add", !.config = config,
                                               !.status = s]
     IN  IF ~HasRequiredFields(config)
           THEN answer("missing_fields") /\ UNCHANGED dynamicServer
         ELSE
           LET added == addEndpoint(dynamicServer,
                                    createEndpointFromConfig(config))
           IN  /\ dynamicServer' = added.mgr
               /\ answer(IF added.ok THEN "added" ELSE "already_exists")
  /\ UNCHANGED <<ledger, registry>>

\* the older controller's removeEndpoint: 200 when the server removed the
\* name, 404 when it did not, 500 when it threw
RemoveEndpoint(name) ==
  /\ LET r == removeEndpoint(dynamicServer, name)
     IN  /\ dynamicServer' = r.mgr
         /\ reply' = [NoReply EXCEPT
                        !.op = "remove", !.name = name,
                        !.status = IF r.raised THEN "error"
                                   ELSE IF r.removed THEN "removed"
                                   ELSE "not_found"]
  /\ UNCHANGED <<ledger, registry>>

NextSingle ==
  \/ \E config \in Configs : AddEndpoint(config)
  \/ \E name \in Names : RemoveEndpoint(name)

SpecSingle == Init /\ [][NextSingle]_vars

\* ---- the multi-tenant program: the endpoints table and the registry -----

\* bodies POST /api/endpoints receives
TenantConfigs ==
  {Config("a", Url, "GET", "d", <<>>),
   Config("b", Url, "POST", "d", <<Param("city", "undefined")>>),
   Config("b", Url, "TRACE", "d", <<>>),
   Config("", Url, "GET", "d", <<>>)}

\* the description PUT /api/endpoints/:id writes
Revised == "d2"

\* createEndpoint: the insert, which the table's CHECK on method and its
\* UNIQUE (user_id, name) can refuse
createEndpoint(table, userId, endpoint) ==
  LET row == [endpoint EXCEPT !.user_id = userId]
  IN  IF \/ endpoint.method \notin HTTPMethod
         \/ \E r \in table : r.user_id = userId /\ r.name = endpoint.name
        THEN [ok |-> FALSE, table |-> table, saved |-> row]
        ELSE [ok |-> TRUE, table |-> table \cup {row}, saved |-> row]

\* getEndpointsByUserIdServerSide (and the variant without the user_id filter)
getEndpointsByUserIdServerSide_AllTenants(table, userId) == table

getEndpointsByUserIdServerSide(table, userId) ==
  {r \in table : r.user_id = userId}

\* deleteEndpointByName
deleteEndpointByName(table, userId, name) ==
  LET rows == {r \in table : r.user_id = userId /\ r.name = name}
  IN  [deleted |-> rows # {}, table |-> table \ rows]

\* updateEndpoint: the row of the tenant is rewritten; no such row is an error
updateEndpoint(table, userId, name, description) ==
  LET rows == {r \in table : r.user_id = userId /\ r.name = name}
  IN  [ok |-> rows # {},
       table |-> (table \ rows)
                   \cup {[r EXCEPT !.description = description] : r \in rows}]

\* MCPServerRegistry.removeServer (and the variant that keeps the entry)
removeServer_Keeping(map, userId) == map

removeServer(map, userId) == [map EXCEPT ![userId] = NoServer]

\* the loop of getOrCreateServer: server.addEndpoint for every loaded row.
\* Two rows of one name make the second addEndpoint throw.
Loadable(rows) ==
  \A r1 \in rows, r2 \in rows : r1.name = r2.name => r1 = r2

Loaded(rows) ==
  [endpoints |-> rows, tools |-> {createEndpointTool(r) : r \in rows}]

\* the tool set a tenant's session offers; NoServer: the tenant has none
SessionOf(map, objects, userId) ==
  IF map[userId] = NoServer THEN <<NoServer, {}>>
  ELSE <<map[userId], objects[map[userId]].tools>>

FreeM(p) == mgmt[p].pc = "idle"

FirstFreeM(p) == \A o \in MgmtProcs : FreeM(o) => ~(o < p)

QuietM == \A q \in MgmtProcs : mgmt[q].pc # "done"

\* a management request arrives
Arrived == requests < MaxRequests /\ requests' = requests + 1

Move(p, rec) == mgmt' = [mgmt EXCEPT ![p] = rec]

\* the response is sent and the context ends
ReturnM(p) ==
  /\ mgmt[p].pc = "done"
  /\ Move(p, MgmtIdle)
  /\ UNCHANGED <<ledger, single, endpointsTable, servers, instances, requests>>

\* POST /api/endpoints up to the end of createEndpoint
Register(p, t, config) ==
  /\ FreeM(p)
  /\ FirstFreeM(p)
  /\ Arrived
  /\ LET me == [MgmtIdle EXCEPT !.op = "register", !.tenant = t,
                                !.name = config.name]
     IN  IF ~HasRequiredFields(config)
           THEN /\ Move(p, [me EXCEPT !.pc = "done", !.result = "missing_fields"])
                /\ UNCHANGED endpointsTable
         ELSE
           LET c == createEndpoint(endpointsTable, t,
                                   createEndpointFromConfig(config))
           IN  /\ endpointsTable' = c.table
               /\ Move(p, IF c.ok
                            THEN [me EXCEPT !.pc = "getServer",
                                            !.endpoint = c.saved]
                            ELSE [me EXCEPT !.pc = "done",
                                            !.endpoint = c.saved,
                                            !.result = "store_error"])
  /\ UNCHANGED <<ledger, single, servers, instances>>

\* userServer.addEndpoint(savedEndpoint) on the server the registry returned
AddToServer(p, me, id, objects) ==
  LET added == addEndpoint(objects[id], me.endpoint)
  IN  /\ instances' = [objects EXCEPT ![id] = added.mgr]
      /\ Move(p, [me EXCEPT !.pc = "done", !.server = id,
                            !.result = IF added.ok THEN "added"
                                       ELSE "already_exists"])

\* getOrCreateServer up to its await: the entry of the tenant is returned,
\* or the load of the tenant's rows is issued
GetServer(p) ==
  /\ mgmt[p].pc = "getServer"
  /\ LET me == mgmt[p]
     IN  IF servers[me.tenant] # NoServer
           THEN AddToServer(p, me, servers[me.tenant], instances)
           ELSE /\ Move(p, [me EXCEPT !.pc = "loading"])
                /\ UNCHANGED instances
  /\ UNCHANGED <<ledger, single, endpointsTable, servers, requests>>

\* the rows of the table that carry the tenant's user_id
RowsOf(table, userId) == {r \in table : r.user_id = userId}

\* the store answers the load; stored remembers the rows the tenant had
\* then.  answered = FALSE is the store reporting an error (or the service
\* key missing): getEndpointsByUserIdServerSide throws, getOrCreateServer
\* rethrows and the controller answers with the error.
Load(p, answered) ==
  /\ mgmt[p].pc = "loading"
  /\ Move(p, IF answered
               THEN [mgmt[p] EXCEPT
                       !.pc = "loaded",
                       !.loaded = getEndpointsByUserIdServerSide(endpointsTable,
                                                                 mgmt[p].tenant),
                       !.stored = RowsOf(endpointsTable, mgmt[p].tenant)]
               ELSE [mgmt[p] EXCEPT !.pc = "done", !.result = "load_error"])
  /\ UNCHANGED <<ledger, single, endpointsTable, servers, instances, requests>>

\* getOrCreateServer after its await: the server is filled and stored, and
\* the caller goes on with it
Built(p) ==
  /\ mgmt[p].pc = "loaded"
  /\ LET me == mgmt[p]
         id == Len(instances) + 1
     IN  IF ~Loadable(me.loaded)
           THEN /\ Move(p, [me EXCEPT !.pc = "done", !.result = "error"])
                /\ UNCHANGED <<servers, instances>>
         ELSE
           /\ servers' = [servers EXCEPT ![me.tenant] = id]
           /\ IF me.op = "register"
                THEN AddToServer(p, me, id, Append(instances, Loaded(me.loaded)))
                ELSE /\ instances' = Append(instances, Loaded(me.loaded))
                     /\ Move(p, [me EXCEPT !.pc = "done", !.server = id,
                                           !.result = "reloaded"])
  /\ UNCHANGED <<ledger, single, endpointsTable, requests>>

\* reloadServerEndpoints up to the await of its getOrCreateServer
ReloadServerEndpoints(p, me) ==
  LET map == removeServer(servers, me.tenant)
      was == [me EXCEPT !.previous = servers[me.tenant]]
  IN  /\ servers' = map
      /\ Move(p, IF map[me.tenant] # NoServer
                   THEN [was EXCEPT !.pc = "done", !.server = map[me.tenant],
                                    !.result = "reloaded"]
                   ELSE [was EXCEPT !.pc = "loading"])

\* POST /api/mcp/reload/:userId
Reload(p, t) ==
  /\ FreeM(p)
  /\ FirstFreeM(p)
  /\ Arrived
  /\ ReloadServerEndpoints(p, [MgmtIdle EXCEPT !.op = "reload", !.tenant = t])
  /\ UNCHANGED <<ledger, single, endpointsTable, instances>>

\* PUT /api/endpoints/:id up to the end of updateEndpoint
Update(p, t, name) ==
  /\ FreeM(p)
  /\ FirstFreeM(p)
  /\ Arrived
  /\ LET me == [MgmtIdle EXCEPT !.op = "update", !.tenant = t, !.name = name]
         u == updateEndpoint(endpointsTable, t, name, Revised)
     IN  /\ endpointsTable' = u.table
         /\ Move(p, IF u.ok THEN [me EXCEPT !.pc = "reload"]
                    ELSE [me EXCEPT !.pc = "done", !.result = "error"])
  /\ UNCHANGED <<ledger, single, servers, instances>>

\* updateEndpointController after updateEndpoint
UpdateReload(p) ==
  /\ mgmt[p].pc = "reload"
  /\ ReloadServerEndpoints(p, mgmt[p])
  /\ UNCHANGED <<ledger, single, endpointsTable, instances, requests>>

\* DELETE /api/endpoints/:name up to the end of deleteEndpointByName
Remove(p, t, name) ==
  /\ FreeM(p)
  /\ FirstFreeM(p)
  /\ Arrived
  /\ LET me == [MgmtIdle EXCEPT !.op = "remove", !.tenant = t, !.name = name]
         d == deleteEndpointByName(endpointsTable, t, name)
     IN  /\ endpointsTable' = d.table
         /\ Move(p, IF d.deleted THEN [me EXCEPT !.pc = "removing"]
                    ELSE [me EXCEPT !.pc = "done", !.result = "not_found"])
  /\ UNCHANGED <<ledger, single, servers, instances>>

\* the registry controller's removeEndpoint after deleteEndpointByName
RemoveFromServer(p) ==
  /\ mgmt[p].pc = "removing"
  /\ LET me == mgmt[p]
         id == servers[me.tenant]
     IN  /\ instances' =
              IF id = NoServer THEN instances
              ELSE [instances EXCEPT ![id] = removeEndpoint(instances[id], me.name).mgr]
         /\ Move(p, [me EXCEPT !.pc = "done", !.server = id,
                               !.result = "removed"])
  /\ UNCHANGED <<ledger, single, endpointsTable, servers, requests>>

StepM(p) ==
  \/ \E t \in Tenants, config \in TenantConfigs : Register(p, t, config)
  \/ GetServer(p)
  \/ \E answered \in BOOLEAN : Load(p, answered)
  \/ Built(p)
  \/ \E t \in Tenants : Reload(p, t)
  \/ \E t \in Tenants, name \in Names : Update(p, t, name)
  \/ UpdateReload(p)
  \/ \E t \in Tenants, name \in Names : Remove(p, t, name)
  \/ RemoveFromServer(p)

\* concurrent management requests
NextRegistry ==
  \/ \E p \in MgmtProcs : ReturnM(p)
  \/ QuietM /\ \E p \in MgmtProcs : StepM(p)

SpecRegistry == Init /\ [][NextRegistry]_vars

\* ------------------------------------------------------------------------
\* Properties
\* ------------------------------------------------------------------------

\* the response of an invocation that has just been handled
Invoked(r) == r.op = "invoke" /\ r.pc = "done"

PricedTool(tool) == tool \in ToolNames /\ ~FreeOfCharge(pricing[Endpoints[tool].id])

\* C1: an invocation of a tool with a pricing record of price > 0, through
\* whatever session, performs the outbound call only if the gate was
\* consulted in that invocation and returned proceed.
C1_GateBeforeCall ==
  \A p \in Procs :
    LET r == procs[p]
    IN  (Invoked(r) /\ PricedTool(r.tool) /\ r.called) => r.gate = "proceed"

\* C2: for every balance row, current balance = lifetime deposited - lifetime
\* spent and current balance >= 0; the amounts are the numbers parseFloat
\* reads from the stored texts, and the equation is taken without rounding.
C2_LedgerInvariant ==
  \A u \in Users :
    LET b == balances[u]
    IN  b.exists =>
          /\ XAdd(b.balance_eth, b.total_spent_eth) = b.total_deposited_eth
          /\ FCmp(b.balance_eth, FZero) >= 0

StatusEdges ==
  {<<"pending", "processing">>, <<"processing", "completed">>,
   <<"processing", "failed">>, <<"pending", "expired">>}

\* C3: every change of a payment's status follows an edge of the state
\* machine, so a completed, failed or expired payment never changes status.
C3_StatusEdges ==
  [][\A i \in 1..Len(payments) :
       payments'[i].status # payments[i].status =>
         <<payments[i].status, payments'[i].status>> \in StatusEdges]_vars

\* C4: a failed payment leaves no debit standing: every deduction made for
\* it has been refunded, so the payer's balance is not lower than if approve
\* had never been attempted on it.
C4_FailedNotDebited ==
  \A i \in 1..Len(payments) :
    payments[i].status = "failed" => refunds[i] >= debits[i]

\* C5: whatever the interleaving of the approvals of a payment, the ledger
\* is debited for it at most once and at most one transfer is submitted.
C5_ChargedOnce ==
  \A i \in 1..Len(payments) : debits[i] <= 1 /\ transfers[i] <= 1

NonTerminal(user, endpointId) ==
  {i \in 1..Len(payments) :
     /\ payments[i].user_id = user
     /\ payments[i].endpoint_id = endpointId
     /\ payments[i].status \in {"pending", "processing"}}

\* C6: at most one pending or processing payment exists per payer and tool.
C6_OneOpenPayment ==
  \A u \in Users, e \in EndpointIds : Cardinality(NonTerminal(u, e)) <= 1

\* C7: across the invocations that supply one completed reference, at most
\* one performs the outbound call.
C7_ReferenceUsedOnce ==
  \A i \in 1..Len(payments) : calls[i] <= 1

\* the invocation r supplies a reference the gate was consulted about
WithReference(r) ==
  r.op = "invoke" /\ r.gate # "skipped" /\ PricedTool(r.tool) /\ r.ref # NoRef

\* the reference of r names a completed payment of the caller for the tool
OwnCompleted(r) ==
  /\ PaymentExists(payments, r.ref)
  /\ payments[r.ref].user_id = r.sess.endUserId
  /\ payments[r.ref].endpoint_id = Endpoints[r.tool].id
  /\ payments[r.ref].status = "completed"

NotUsable == {"invalid_payment_id", "other_user", "other_endpoint", "not_completed"}

\* C8: for a priced tool and a supplied reference the gate returns proceed
\* only if the payment exists, is the caller's, is for the tool and is
\* completed; otherwise the invocation returns a payment-not-usable result,
\* makes no outbound call and leaves the payments table as it was.
C8_ReferenceGate ==
  [][\A p \in Procs :
       LET r == procs'[p]
       IN  (procs[p].pc = "idle" /\ WithReference(r)) =>
             IF OwnCompleted(r)
               THEN r.gate = "proceed"
               ELSE /\ r.gate = "blocked"
                    /\ r.result \in NotUsable
                    /\ ~r.called
                    /\ payments' = payments]_vars

\* a reference to a payment of the caller that is not completed was refused
C8_Witness ==
  \E p \in Procs :
    /\ Invoked(procs[p]) /\ WithReference(procs[p])
    /\ procs[p].result = "not_completed"
    /\ ~procs[p].called

\* C9 as stated: an invocation of a priced tool with a completed reference of
\* the caller and the tool makes the outbound request, without _payment_id.
C9_AlwaysCalls ==
  \A p \in Procs :
    LET r == procs[p]
    IN  (Invoked(r) /\ WithReference(r) /\ OwnCompleted(r)) =>
          r.gate = "proceed" /\ r.called /\ ReservedParam \notin r.payload

\* C9: an invocation of a priced tool with a completed reference of the
\* caller and the tool, and with every required parameter of the tool, passes
\* the gate and makes the outbound request, whose payload has no _payment_id.
C9_StripAndCall ==
  \A p \in Procs :
    LET r == procs[p]
    IN  (/\ Invoked(r) /\ WithReference(r) /\ OwnCompleted(r)
         /\ Endpoints[r.tool].required \subseteq r.keys) =>
          r.gate = "proceed" /\ r.called /\ ReservedParam \notin r.payload

\* a priced tool was called on a completed reference sent with its parameters
C9_Witness ==
  \E p \in Procs :
    LET r == procs[p]
    IN  /\ Invoked(r) /\ WithReference(r) /\ OwnCompleted(r)
        /\ Endpoints[r.tool].required \subseteq r.keys
        /\ ReservedParam \in Args(r.keys, r.ref)
        /\ r.called /\ ReservedParam \notin r.payload

\* C10: when approve finds the payer's balance below the amount, it returns
\* the shortfall report and that step changes no payment, no balance field
\* and submits no transfer.
C10_ShortfallFrame ==
  [][\A p \in Procs :
       LET r == procs[p]
       IN  (/\ r.op = "approve" /\ r.pc = "ap_getBalance"
            /\ procs'[p] # r
            /\ FLess(balances[r.user].balance_eth,
                     parseFloat(payments[r.ref].amount_eth))) =>
             /\ procs'[p].pc = "done"
             /\ procs'[p].result = "shortfall"
             /\ payments' = payments
             /\ balances' = balances
             /\ transfers' = transfers
             /\ debits' = debits]_vars

\* an approval has returned the shortfall report; its payment is pending
C10_Witness ==
  \E p \in Procs :
    /\ procs[p].op = "approve" /\ procs[p].pc = "done"
    /\ procs[p].result = "shortfall"
    /\ payments[procs[p].ref].status = "pending"
    /\ debits[procs[p].ref] = 0

\* the approval r was rejected on entry: unknown reference, another payer's
\* payment, or a payment that is not pending
Rejected(r) ==
  /\ r.op = "approve"
  /\ r.result \in {"not_found", "unauthorized", "wrong_state"}

\* C11: an approval rejected because the reference is unknown, the approver
\* is not the payer or the payment is not pending leaves every payment row
\* and every balance as they were.
C11_RejectionFrame ==
  [][\A p \in Procs :
       (Rejected(procs[p]) /\ procs[p].pc = "ap_catch" /\ procs'[p] # procs[p])
         => payments' = payments /\ balances' = balances]_vars

\* the approval r has returned the failure report with refunded = true
Refunded(r) == r.op = "approve" /\ r.pc = "done" /\ r.result = "refunded"

\* in the approval r the transfer was not submitted, or its confirmation
\* did not arrive, after the debit and the mark as processing
TransferFailed(r) ==
  r.trail \in {<<"debit", "processing", "refund">>,
               <<"debit", "processing", "transfer", "refund">>}

\* C12: when the transfer or the wait for its confirmation fails after the
\* debit, approve credits the amount back once, sets the payment to failed
\* with the error detail and returns the failure with refunded; the payer's
\* current balance is then what it was before the approve.
C12_RefundRestores ==
  \A p \in Procs :
    LET r == procs[p]
    IN  (Refunded(r) /\ TransferFailed(r)) =>
          /\ payments[r.ref].status = "failed"
          /\ payments[r.ref].error_message
          /\ refunds[r.ref] = debits[r.ref]
          /\ balances[r.user].balance_eth = r.currentBalance

\* in the trail t every b comes after some a
Before(t, a, b) ==
  \A j \in 1..Len(t) : t[j] = b => \E i \in 1..(j - 1) : t[i] = a

\* C13: within one approve the debit is written before the transfer is
\* submitted, and waitForTransaction has returned before the payment is
\* set to completed.
C13_HappensBefore ==
  \A p \in Procs :
    /\ Before(procs[p].trail, "debit", "transfer")
    /\ Before(procs[p].trail, "confirm", "completed")

\* an approval has debited, transferred, waited and marked the payment
\* completed
C13_Witness ==
  \E p \in Procs :
    /\ procs[p].op = "approve" /\ procs[p].result = "success"
    /\ procs[p].trail =
         <<"debit", "processing", "transfer", "confirm", "completed">>
    /\ payments[procs[p].ref].status = "completed"

\* C14: a payment that is completed has been processing before.
C14_CompletedWasProcessing ==
  \A i \in 1..Len(payments) :
    payments[i].status = "completed" => "processing" \in seen[i]

\* a payment is completed and has been pending and processing
C14_Witness ==
  \E i \in 1..Len(payments) :
    /\ payments[i].status = "completed"
    /\ {"pending", "processing"} \subseteq seen[i]
    /\ debits[i] >= 1 /\ transfers[i] >= 1

\* the ledger operations that have succeeded for the principal u so far:
\* how many credits of each amount, and how many debits and refunds of the
\* payments of u (each of the payment's amount)
Count(u, f) ==
  LET mine == {i \in 1..Len(payments) : payments[i].user_id = u}
      RECURSIVE Sum(_)
      Sum(S) == IF S = {} THEN 0
                ELSE LET i == CHOOSE x \in S : TRUE IN f[i] + Sum(S \ {i})
  IN  Sum(mine)

\* the Balance a row holds; an absent row holds the same as a row of zeros
Fields(rw) == <<rw.balance_eth, rw.total_deposited_eth, rw.total_spent_eth>>

\* one credit and one debit applied alone to the row rw
CreditRow(rw, amountEth) ==
  LET bal == getOrCreateBalance([u \in Users |-> rw], "u1")
  IN  addDepositWrite(bal, "u1", bal["u1"], amountEth)["u1"]

DebitRow(rw, amountEth) ==
  deductPaymentWrite([u \in Users |-> rw], "u1", rw, amountEth)["u1"]

\* the rows that applying, one after the other in some order, cr[a] credits
\* of each amount a, d debits and r credits of the price leaves of the
\* absent row; a debit takes its place in the order only where it succeeds
RECURSIVE SerialRows(_, _, _)
SerialRows(cr, d, r) ==
  IF d = 0 /\ r = 0 /\ \A a \in CreditAmounts : cr[a] = 0
    THEN {NoBalance}
  ELSE
    UNION (
      {{CreditRow(rw, a) : rw \in SerialRows([cr EXCEPT ![a] = @ - 1], d, r)} :
          a \in {b \in CreditAmounts : cr[b] > 0}}
      \cup {{CreditRow(rw, Price) : rw \in SerialRows(cr, d, r - 1)} : x \in {y \in {1} : r > 0}}
      \cup {{DebitRow(rw, Price) :
               rw \in {w \in SerialRows(cr, d - 1, r) : ~deductPaymentThrows(w, Price)}} :
                 x \in {y \in {1} : d > 0}})

\* C15: the ledger's check-and-update is atomic per principal: whatever the
\* interleaving of the debits and credits of a principal, its balance row is
\* the one that the operations that succeeded leave when applied one at a
\* time in some order (so no update is lost, and two debits that the balance
\* cannot both cover do not both succeed).
C15_SerialLedger ==
  \A u \in Users :
    Fields(balances[u]) \in
      {Fields(rw) : rw \in SerialRows(credits[u], Count(u, debits), Count(u, refunds))}

\* the request r is a deposit submitted with a hash (creditDeposit) or a
\* credit asked for without one (manualCredit)
DepositCredit(r) == r.op \in {"deposit", "credit"}

VerifyFailures ==
  {"not_confirmed_yet", "failed_on_chain", "wrong_recipient", "insufficient_payment"}

\* C16: a balance is credited for a deposit only after verify succeeded for
\* the submitted receipt, and a request whose verify reports not confirmed,
\* reverted, recipient mismatch or amount insufficient changes no balance.
C16_CreditAfterVerify ==
  [][\A p \in Procs :
       /\ (/\ DepositCredit(procs[p]) /\ procs[p].pc = "cr_write"
           /\ procs'[p] # procs[p] /\ balances' # balances)
            => procs[p].verified = "valid"
       /\ (/\ procs[p].pc = "idle" /\ procs'[p].op = "deposit"
           /\ procs'[p].verified \in VerifyFailures)
            => balances' = balances /\ procs'[p].pc = "done"]_vars

\* the failures the state of the chain calls for, for the transaction tx
\* verified against the claimed amount and the expected recipient
Faults(tx, claimedAmount, expectedRecipient) ==
  {f \in VerifyFailures :
     \/ f = "not_confirmed_yet" /\ ~tx.mined
     \/ f = "failed_on_chain" /\ tx.mined /\ tx.status # "success"
     \/ f = "wrong_recipient" /\ tx.mined /\ tx.to # expectedRecipient
     \/ f = "insufficient_payment" /\ tx.mined
          /\ tx.value < parseEther(claimedAmount)}

\* the request r has had its transaction verified by creditDeposit
Verified(r) == r.op = "deposit" /\ r.verified # None

\* C17: verifyPayment reports not confirmed for a transaction that is not
\* mined, failed on chain for one that was mined and failed, wrong recipient
\* when the recipient is not the expected one and insufficient payment when
\* the value is below the claimed amount; it succeeds exactly when none of
\* these holds.
C17_VerifyClassifies ==
  \A p \in Procs :
    LET r == procs[p]
        faults == Faults(Chain[r.tx], r.amount, PLATFORM_WALLET_ADDRESS)
    IN  Verified(r) =>
          /\ r.verified = "valid" <=> faults = {}
          /\ r.verified # "valid" => r.verified \in faults

\* the debit of the approval r is about to check the row, or to write
Debiting(r) == r.op = "approve" /\ r.pc \in {"ap_deductRead", "ap_deductWrite"}

\* C18: a debit of more than the current balance fails with insufficient
\* balance and leaves every field of the row as it was; any other debit,
\* once written, has decreased the current balance by the amount, increased
\* the lifetime spent by the amount and left the lifetime deposited alone
\* (the amounts are the numbers the texts denote, taken without rounding).
C18_DebitContract ==
  [][\A p \in Procs :
       LET r == procs[p]
           row == balances[r.user]
           amount == parseFloat(r.amount)
       IN  (Debiting(r) /\ procs'[p] # r) =>
             IF r.pc = "ap_deductRead"
               THEN (row.exists /\ FLess(row.balance_eth, amount)) =>
                      /\ procs'[p].result = "insufficient_balance"
                      /\ procs'[p].pc = "ap_catch"
                      /\ balances' = balances
               ELSE debits'[r.ref] # debits[r.ref] =>
                      /\ balances'[r.user].balance_eth = XSub(row.balance_eth, amount)
                      /\ balances'[r.user].total_spent_eth = XAdd(row.total_spent_eth, amount)
                      /\ balances'[r.user].total_deposited_eth = row.total_deposited_eth]_vars

\* C19: a credit of an amount that is not positive fails with invalid amount
\* (or with the error of the store) and leaves the row as it was; any other
\* credit, once written, has increased the current balance and the lifetime
\* deposited by the amount and left the lifetime spent alone (amounts taken
\* without rounding).
C19_CreditContract ==
  [][\A p \in Procs :
       LET r == procs[p]
           row == balances[r.user]
           amount == parseFloat(r.amount)
       IN  (DepositCredit(r) /\ r.pc = "cr_write" /\ procs'[p] # r) =>
             IF FCmp(amount, FZero) <= 0
               THEN /\ procs'[p].result \in {"invalid_amount", "store_error"}
                    /\ balances' = balances
               ELSE procs'[p].result = "credited" =>
                      /\ balances'[r.user].balance_eth = XAdd(row.balance_eth, amount)
                      /\ balances'[r.user].total_deposited_eth =
                           XAdd(row.total_deposited_eth, amount)
                      /\ balances'[r.user].total_spent_eth = row.total_spent_eth]_vars

\* the approval r has returned, with a result or with an error
Returned(r) == r.op = "approve" /\ r.pc = "done"

\* C20: when an approve returns, also after a write to the store failed part
\* way, its payment is not processing unless a debit for it stands
\* unrefunded, and is not pending with a debit for it standing unrefunded.
C20_NothingHalfApplied ==
  \A p \in Procs :
    LET r == procs[p]
    IN  (Returned(r) /\ PaymentExists(payments, r.ref)) =>
          /\ payments[r.ref].status = "processing" => debits[r.ref] > refunds[r.ref]
          /\ payments[r.ref].status = "pending" => debits[r.ref] = refunds[r.ref]

\* the invocation r names a tool and lacks one of its required parameters
LacksParameter(r) ==
  /\ r.op = "invoke" /\ r.tool \in ToolNames
  /\ ~(Endpoints[r.tool].required \subseteq r.keys)

\* C21: an invocation that lacks a required parameter creates no payment
\* and makes no outbound call, also when the tool is priced and no reference
\* is supplied.
C21_ValidationFirst ==
  [][\A p \in Procs :
       (procs[p].pc = "idle" /\ LacksParameter(procs'[p])) =>
         /\ payments' = payments
         /\ ~procs'[p].called]_vars

WithoutReference(r) ==
  r.op = "invoke" /\ r.gate # "skipped" /\ PricedTool(r.tool) /\ r.ref = NoRef

\* C23: when a priced tool is invoked without a reference by a payer who has
\* no balance row, the gate still creates a pending payment of that payer
\* for the tool and returns the payment-required result.
C23_AbsentBalanceIsZero ==
  [][\A p \in Procs :
       LET r == procs'[p]
       IN  (/\ procs[p].pc = "idle" /\ WithoutReference(r)
            /\ ~balances[r.user].exists) =>
             /\ r.result = "payment_required"
             /\ Len(payments') = Len(payments) + 1
             /\ payments'[Len(payments')].user_id = r.user
             /\ payments'[Len(payments')].status = "pending"]_vars

\* the descriptors and tools of a session belong to the tenant it is held for
Owned(map, objects, t) ==
  map[t] # NoServer =>
    LET s == objects[map[t]]
    IN  /\ \A e \in s.endpoints : e.user_id = t
        /\ \A tool \in s.tools :
             \E e \in s.endpoints : tool = createEndpointTool(e)

\* C24: the session the registry holds for a tenant contains only tools built
\* from descriptors that tenant owns, and a management request of one tenant
\* (register, remove, update, reload) never changes the session or the tool
\* set of another tenant.
C24_TenantIsolation ==
  [][/\ \A t \in Tenants : Owned(servers', instances', t)
     /\ \A p \in MgmtProcs :
          mgmt'[p] # mgmt[p] =>
            \A u \in Tenants \ {mgmt[p].tenant, mgmt'[p].tenant} :
              SessionOf(servers', instances', u)
                = SessionOf(servers, instances, u)]_vars

C24_Witness ==
  /\ \A t \in Tenants :
       servers[t] # NoServer /\ instances[servers[t]].tools # {}
  /\ \E p \in MgmtProcs :
       /\ mgmt[p].pc = "done" /\ mgmt[p].result \in {"added", "reloaded"}
       /\ Cardinality(instances[servers[mgmt[p].tenant]].tools) = 2

\* the step in which the reload of request p completes
ReloadCompletes(p) ==
  /\ mgmt[p].pc # "done"
  /\ mgmt'[p].pc = "done" /\ mgmt'[p].result = "reloaded"

\* C25: when a reload of a tenant completes, the registry holds a session for
\* the tenant that is another instance than the one it held before the
\* reload, and whose tools are those of the descriptors the tenant had in the
\* table when the reload loaded them.
C25_ReloadReplaces ==
  [][\A p \in MgmtProcs :
       ReloadCompletes(p) =>
         LET r == mgmt'[p]
             id == servers'[r.tenant]
         IN  /\ id # NoServer
             /\ id # r.previous
             /\ id # servers[r.tenant]
             /\ instances'[id].endpoints = r.stored
             /\ instances'[id].tools
                  = {createEndpointTool(e) : e \in r.stored}]_vars

C25_Witness ==
  \E p \in MgmtProcs :
    LET r == mgmt[p]
    IN  /\ r.op = "update" /\ r.pc = "done" /\ r.result = "reloaded"
        /\ r.previous # NoServer
        /\ servers[r.tenant] = r.server
        /\ \E e \in instances[r.server].endpoints : e.description = Revised

\* the step in which the getOrCreateServer call of request p stores the
\* session it built
StoresBuilt(p) ==
  /\ mgmt[p].pc = "loaded"
  /\ mgmt'[p].server # NoServer

\* C26: getOrCreateServer returns the live session of the tenant or builds
\* exactly one: whatever the interleaving of concurrent calls for one tenant,
\* a call stores a session it built only while the registry holds none for
\* the tenant, so that every caller receives the same instance.
C26_BuildsOne ==
  [][\A p \in MgmtProcs :
       StoresBuilt(p) => servers[mgmt[p].tenant] = NoServer]_vars

\* the request answered last registers a descriptor whose name the server holds
Duplicate(config, m) ==
  HasRequiredFields(config) /\ Has(m.endpoints, config.name)

\* C27: registering a descriptor whose name the registry already holds fails
\* with the duplicate-name error and leaves the registry as it was: neither
\* the descriptor nor the tool definition of that name is replaced.
C27_DuplicateRejected ==
  [][(reply'.op = "add" /\ Duplicate(reply'.config, dynamicServer)) =>
       /\ reply'.status = "already_exists"
       /\ dynamicServer' = dynamicServer]_vars

C27_Witness ==
  /\ reply.op = "add" /\ reply.status = "already_exists"
  /\ \E e \in dynamicServer.endpoints :
       /\ e.name = reply.config.name
       /\ e.description # reply.config.description
  /\ \E tool \in dynamicServer.tools :
       /\ tool.name = reply.config.name
       /\ tool.description # reply.config.description

\* a body without a name, URL, verb or description, or with a verb outside
\* the HTTPMethod enum
Unsupported(config) ==
  ~HasRequiredFields(config) \/ config.method \notin HTTPMethod

\* C28: registering fails with the invalid-descriptor error, and adds
\* nothing to the registry, when the name, the URL, the verb or the
\* description is empty or the verb is not one of GET, POST, PUT, PATCH,
\* DELETE.
C28_InvalidRejected ==
  [][(reply'.op = "add" /\ Unsupported(reply'.config)) =>
       /\ reply'.status = "missing_fields"
       /\ dynamicServer' = dynamicServer]_vars

\* the server holds neither a descriptor nor a tool of the name
Unregistered(m, name) == ~Has(m.endpoints, name) /\ ~Has(m.tools, name)

\* C29: removing is idempotent: it never raises; removing a name that is not
\* registered answers false (not found) and leaves the registry as it was;
\* and removing the same name again changes nothing more.
C29_RemoveIdempotent ==
  [][reply'.op = "remove" =>
       LET name == reply'.name
           again == removeEndpoint(dynamicServer', name)
       IN  /\ reply'.status # "error"
           /\ Unregistered(dynamicServer, name) =>
                /\ reply'.status = "not_found"
                /\ dynamicServer' = dynamicServer
           /\ ~again.raised /\ ~again.removed
           /\ again.mgr = dynamicServer']_vars

C29_Witness ==
  /\ reply.op = "remove" /\ reply.status = "not_found"
  /\ Unregistered(dynamicServer, reply.name)
  /\ dynamicServer.endpoints # {}

\* the names of the parameters whose required flag is not false, in order
NotOptional(parameters) ==
  LET kept == SelectSeq(parameters, LAMBDA q : q.required # FALSE)
  IN  [i \in 1..Len(kept) |-> kept[i].name]

\* C30: the input schema generated for a descriptor has one property per
\* parameter plus the reserved _payment_id; its required list is exactly the
\* parameters whose required flag is not false; _payment_id is never in the
\* required list.
C30_SchemaShape ==
  \A e \in dynamicServer.endpoints :
    LET tool == createEndpointTool(e)
    IN  /\ tool \in dynamicServer.tools
        /\ Cardinality(tool.properties) = Len(e.parameters) + 1
        /\ ReservedParam \in tool.properties
        /\ \A i \in 1..Len(e.parameters) :
             e.parameters[i].name \in tool.properties
        /\ tool.required = NotOptional(e.parameters)
        /\ \A i \in 1..Len(tool.required) : tool.required[i] # ReservedParam

\* C31: no payment ever has the status expired, and a pending payment leaves
\* pending only in a step of an approve of that payment: one that is never
\* approved stays pending.
C31_NeverExpired ==
  [][\A i \in 1..Len(payments') :
       /\ payments'[i].status # "expired"
       /\ (/\ i <= Len(payments) /\ payments[i].status = "pending"
           /\ payments'[i].status # "pending") =>
            \E p \in Procs : procs'[p].op = "approve" /\ procs'[p].ref = i]_vars

C31_Witness ==
  /\ Len(payments) = 2
  /\ payments[1].status = "pending" /\ seen[1] = {"pending"}
  /\ payments[2].status \in {"completed", "failed"}

\* the amounts exact decimal arithmetic can produce from the literals of the
\* model, which are all multiples of 0.001: the doubles nearest to k / 1000
Milli == 10 * (MaxOps + 2)

ExactAmounts ==
  {ParseDecimal(Dec(sg, c, 3)) : sg \in {1, -1}, c \in 0..Milli}

\* C32: amounts are compared and combined with exact decimal arithmetic, so
\* every amount a Balance holds is an exact decimal: here, a multiple of
\* 0.001, as every sum and difference of the amounts credited and charged is.
C32_ExactDecimals ==
  \A u \in Users :
    balances[u].exists =>
      /\ balances[u].balance_eth \in ExactAmounts
      /\ balances[u].total_deposited_eth \in ExactAmounts
      /\ balances[u].total_spent_eth \in ExactAmounts

Settled(i) ==
  i <= Len(payments) /\ payments[i].status \in {"completed", "failed"}

\* an approve has just written processing to payment i
MovedToProcessing(i) ==
  \E p \in Procs :
    /\ procs[p].op = "approve" /\ procs[p].ref = i
    /\ procs[p].pc = "ap_transfer" /\ payments[i].status = "processing"

\* the approve of payment i ends with the error of a store that refused it
StoreRefused(i) ==
  \E p \in Procs :
    /\ procs[p].op = "approve" /\ procs[p].ref = i
    /\ procs[p].pc = "done" /\ procs[p].result = "store_error"

C34_DualLedger ==
  \A i \in 1..Len(payments) :
    ~(/\ transfers[i] > 0
      /\ refunds[i] > 0
      /\ payments[i].status = "failed")


\* C35: for every on-chain transaction, the amounts credited across all the
\* creditDeposit requests citing its hash never exceed the value it carries.
C35_CreditedWithinValue ==
  \A h \in TxHashes : credited[h] <= Chain[h].value


\* C36: when an approve fails in settlement and refunds, the current balance,
\* the lifetime deposited and the lifetime spent of the payer are what they
\* were before the approve.
C36_RefundFrame ==
  \A p \in Procs :
    LET r == procs[p]
    IN  (Refunded(r) /\ TransferFailed(r)) =>
          /\ balances[r.user].balance_eth = r.balance.balance_eth
          /\ balances[r.user].total_deposited_eth = r.balance.total_deposited_eth
          /\ balances[r.user].total_spent_eth = r.balance.total_spent_eth

\* the add-endpoint request r has been answered after createEndpoint stored
\* its descriptor
Persisted(r) ==
  /\ r.op = "register" /\ r.pc = "done"
  /\ r.result \notin {"missing_fields", "store_error"}

\* C37: an add-endpoint request whose descriptor was stored is answered with
\* success, and the session of its tenant then offers the tool, also when the
\* tenant had no session before the request.
C37_StoredIsSuccess ==
  \A p \in MgmtProcs :
    Persisted(mgmt[p]) =>
      /\ mgmt[p].result = "added"
      /\ \E tool \in SessionOf(servers, instances, mgmt[p].tenant)[2] :
           tool.name = mgmt[p].name

\* the request r has been answered after the reloadServerEndpoints it ran
\* returned or threw
ReloadEnded(r) ==
  /\ r.op \in {"reload", "update"} /\ r.pc = "done"
  /\ r.result \in {"reloaded", "load_error", "error"}

\* C38: reload is all or nothing: once reloadServerEndpoints has returned or
\* thrown, a tenant that had a session before it has one, and when the load
\* failed that session is the previous one.
C38_ReloadAllOrNothing ==
  \A p \in MgmtProcs :
    LET r == mgmt[p]
    IN  (ReloadEnded(r) /\ r.previous # NoServer) =>
          /\ servers[r.tenant] # NoServer
          /\ r.result # "reloaded" => servers[r.tenant] = r.previous

\* C39: _payment_id is never forwarded: whenever an invocation makes the
\* outbound request, for a priced or a free tool, with the gate consulted or
\* not, the query or body it sends has no _payment_id.
C39_NeverForwarded ==
  \A p \in Procs :
    LET r == procs[p]
    IN  (Invoked(r) /\ r.called) => ReservedParam \notin r.payload

====
